---- MODULE Spec2Model ----
(***************************************************************************)
(* Model of make_rs (src/src/lib.rs): the command dispatcher Maker         *)
(* (with / default / cmd / make) and the conditional copier (is_newer /    *)
(* copy).                                                                  *)
(*                                                                         *)
(* Option<T> values are sequences of length 0 (None) or 1 (Some(v)).       *)
(* Strings are TLA+ strings; format!/eprintln! concatenation is \o.        *)
(***************************************************************************)
EXTENDS Naturals, Sequences, FiniteSets, TLC

\* ---------------------------------------------------------------- bounds

\* Largest number of cmd() registrations on one Maker.
MaxCmds == 3
\* Largest number of default() calls on one Maker.
MaxDefaults == 2

\* ------------------------------------------------------- input universes

\* Names a build script registers commands under.
CmdNames == {"build", "test", "help"}
\* Names that can be asked for: a registered one or one nobody registered.
ArgNames == CmdNames \cup {"frobnicate"}
\* std::env::args() after the program name: nothing, one argument, or a
\* first argument followed by one more.
ArgLists ==
    {<<>>} \cup {<<a>> : a \in ArgNames} \cup {<<a, "--release">> : a \in ArgNames}
\* Description of the error a failing action returns.
ErrText == "action failed"

\* ------------------------------------------------------------- variables

VARIABLES
    \* Maker
    commands,      \* Maker.commands: Vec<(String, Box<dyn FnOnce>)>, as <<[name, id]>>
    default,       \* Maker.default: Option<String>
    args,          \* std::env::args().skip(1) of the process
    mpc,           \* "configure" while the builder is being chained, "done" after make
    stderr,        \* lines written by eprintln!
    invoked,       \* ids of the actions called, in call order
    registered,    \* history: every (name, id) given to cmd(), in order
    defaultCalls   \* history: every name given to default(), in order

makerVars ==
    <<commands, default, args, mpc, stderr, invoked, registered, defaultCalls>>

VARIABLES
    \* copy
    fs,            \* the filesystem: path -> [kind, mtime, data]
    now,           \* the system clock
    srcs,          \* src.into_iter(): the resolved source paths of the call
    dest,          \* the dest argument of the call
    idx,           \* position of the for loop in srcs
    cpc,           \* "idle" before any call, "loop" inside copy, "ok"/"err" = its result
    events,        \* history: one record per source the running call has compared
    prev,          \* history: Some([srcs, dest, events, result, clean]) of the call before
    dirty          \* history: a source was modified since the last call returned

copyVars == <<fs, now, srcs, dest, idx, cpc, events, prev, dirty>>

vars == <<makerVars, copyVars>>

\* ------------------------------------------------------------ the Maker

\* Vec::remove(i): the vector without its i-th element, order kept.
Remove(s, i) == [k \in 1..(Len(s) - 1) |-> IF k < i THEN s[k] ELSE s[k + 1]]

\* Maker::make, lines 118-127: the requested name as Option<String>:
\* the first argument if there is one, else the default (None = <<>>).
\* Variant of Target: the default wins over the argument.
TargetDefaultFirst(a, d) ==
    IF d # <<>> THEN d ELSE IF Len(a) >= 1 THEN <<a[1]>> ELSE <<>>

Target(a, d) == IF Len(a) >= 1 THEN <<a[1]>> ELSE d

\* Maker::make, lines 129-133: iter().enumerate().find(..): the index of
\* the first entry whose name is the target, 0 for None.
\* Variant of FindFirst: the last entry of the name (rfind / rposition).
FindLast(cmds, target) ==
    IF \E i \in 1..Len(cmds) : cmds[i].name = target
    THEN CHOOSE i \in 1..Len(cmds) :
            /\ cmds[i].name = target
            /\ \A j \in (i + 1)..Len(cmds) : cmds[j].name # target
    ELSE 0

FindFirst(cmds, target) ==
    IF \E i \in 1..Len(cmds) : cmds[i].name = target
    THEN CHOOSE i \in 1..Len(cmds) :
            /\ cmds[i].name = target
            /\ \A j \in 1..(i - 1) : cmds[j].name # target
    ELSE 0

\* Maker::make, line 136: self.commands.remove(i).1(): the ids of the
\* actions the found branch calls.
\* Variant of InvokeAt: every entry of the name is called (filter, not find).
InvokeAllNamed(cmds, i) ==
    LET hit == SelectSeq(cmds, LAMBDA e : e.name = cmds[i].name)
    IN [k \in 1..Len(hit) |-> hit[k].id]

InvokeAt(cmds, i) == <<cmds[i].id>>

\* Maker::make, lines 143-146: the lines of the help path.
\* Variant of HelpLines: the names in reverse registration order.
HelpLinesReversed(cmds) ==
    <<"Available commands:">>
        \o [i \in 1..Len(cmds) |-> "  " \o cmds[Len(cmds) + 1 - i].name]

HelpLines(cmds) ==
    <<"Available commands:">> \o [i \in 1..Len(cmds) |-> "  " \o cmds[i].name]

\* Maker::make, line 148.
\* Variant of UnknownLine: the wording in lower case.
UnknownLineLower(target) == "unknown command: " \o target

UnknownLine(target) == "Unknown command: " \o target

\* Maker::with
MakerInit ==
    /\ commands = <<>>
    /\ default = <<>>
    /\ args \in ArgLists
    /\ mpc = "configure"
    /\ stderr = <<>>
    /\ invoked = <<>>
    /\ registered = <<>>
    /\ defaultCalls = <<>>

\* Maker::default(name)
\* Variant of NewDefault: a default already set is kept (get_or_insert).
NewDefaultKeepFirst(old, name) == IF old = <<>> THEN <<name>> ELSE old

NewDefault(old, name) == <<name>>

Default(name) ==
    /\ mpc = "configure"
    /\ Len(defaultCalls) < MaxDefaults
    /\ default' = NewDefault(default, name)
    /\ defaultCalls' = Append(defaultCalls, name)
    /\ UNCHANGED <<commands, args, mpc, stderr, invoked, registered>>

\* Maker::cmd(name, cmd)
Cmd(name) ==
    /\ mpc = "configure"
    /\ Len(commands) < MaxCmds
    /\ LET e == [name |-> name, id |-> Len(registered) + 1]
       IN /\ commands' = Append(commands, e)
          /\ registered' = Append(registered, e)
    /\ UNCHANGED <<default, args, mpc, stderr, invoked, defaultCalls>>

\* Maker::make(self), the action's result being ok (Ok(())) or not (Err).
Make(ok) ==
    /\ mpc = "configure"
    /\ mpc' = "done"
    /\ LET t == Target(args, default)
       IN IF t = <<>>
          THEN /\ stderr' = Append(stderr, "No command was given")
               /\ UNCHANGED <<commands, invoked>>
          ELSE LET target == t[1]
                   i == FindFirst(commands, target)
               IN IF i # 0
                  THEN /\ commands' = Remove(commands, i)
                       /\ invoked' = invoked \o InvokeAt(commands, i)
                       /\ stderr' = IF ok THEN stderr
                                    ELSE stderr \o <<"An error occurred:", ErrText>>
                  ELSE IF target = "help"
                  THEN /\ stderr' = stderr \o HelpLines(commands)
                       /\ commands' = <<>>
                       /\ UNCHANGED invoked
                  ELSE /\ stderr' = Append(stderr, UnknownLine(target))
                       /\ UNCHANGED <<commands, invoked>>
    /\ UNCHANGED <<default, args, registered, defaultCalls>>

\* ------------------------------------------------------------ the copier

\* Latest value of the clock and of modification times.
MaxTime == 2
\* Largest number of paths in one resolved source set.
MaxSrcs == 2

\* Paths are sequences of components. "a" is a file of the working
\* directory, ".." is its parent, "d" is the destination, "d/a" is what "d"
\* holds when it is a directory.
SrcPaths == {<<"a">>, <<"..">>}
DestPaths == {<<"d">>}
Paths == SrcPaths \cup DestPaths \cup {<<"d", "a">>}

Absent == [kind |-> "absent", mtime |-> 0, data |-> "-"]
File(m, c) == [kind |-> "file", mtime |-> m, data |-> c]
Dir(m) == [kind |-> "dir", mtime |-> m, data |-> "-"]

\* Path::file_name(): None when the path is empty or ends in "..".
file_name(p) ==
    IF p = <<>> \/ p[Len(p)] = ".." THEN <<>> ELSE <<p[Len(p)]>>

\* Path::join(name)
join(p, name) == Append(p, name)

\* Path::is_dir()
is_dir(f, p) == p \in DOMAIN f /\ f[p].kind = "dir"

\* Result<T>: Err is [err |-> TRUE], Ok(v) is [err |-> FALSE, val |-> v].
Err == [err |-> TRUE]
Ok(v) == [err |-> FALSE, val |-> v]
unwrap_or(r, v) == IF r.err THEN v ELSE r.val

\* Path::metadata()?.modified()?: fails for a path that does not exist.
modified(f, p) ==
    IF p \in DOMAIN f /\ f[p].kind # "absent" THEN Ok(f[p].mtime) ELSE Err

\* is_newer(target, base), lines 43-48.
\* Variant of is_newer: >= in place of >.
is_newer_or_equal(f, target, base) ==
    LET target_mtime == modified(f, target)
        base_mtime == modified(f, base)
    IN IF target_mtime.err \/ base_mtime.err THEN Err
       ELSE Ok(target_mtime.val >= base_mtime.val)

is_newer(f, target, base) ==
    LET target_mtime == modified(f, target)
        base_mtime == modified(f, base)
    IN IF target_mtime.err \/ base_mtime.err THEN Err
       ELSE Ok(target_mtime.val > base_mtime.val)

\* copy, lines 57-65: the destination of one source, or the early return.
\* Variant of EffectiveDest: unwrap_or(dest) in place of ok_or(..)?.
EffectiveDestLenient(f, d, path) ==
    IF is_dir(f, d) /\ file_name(path) # <<>>
    THEN Ok(join(d, file_name(path)[1]))
    ELSE Ok(d)

EffectiveDest(f, d, path) ==
    IF is_dir(f, d)
    THEN IF file_name(path) = <<>> THEN Err
         ELSE Ok(join(d, file_name(path)[1]))
    ELSE Ok(d)

\* copy, line 67: is_newer(..).unwrap_or(true).
\* Variant of ShouldCopy: unwrap_or(false).
ShouldCopyStrict(f, path, d) == unwrap_or(is_newer(f, path, d), FALSE)

ShouldCopy(f, path, d) == unwrap_or(is_newer(f, path, d), TRUE)

\* std::fs::copy(from, to): every result it can have. It fails when from is
\* not a regular file or to is a directory, and can fail for reasons the
\* model does not see (permissions); when it succeeds, to holds from's bytes
\* and is stamped with the time of the write.
FsCopy(f, from, to, t) ==
    {[fs |-> f, res |-> "failed"]} \cup
    IF f[from].kind = "file" /\ f[to].kind # "dir"
    THEN {[fs |-> [f EXCEPT ![to] = File(t, f[from].data)], res |-> "ok"]}
    ELSE {}

\* copy, line 68: `let _ = std::fs::copy(..)`: what the loop does with the
\* result of the write.
\* Variant of AfterWrite: std::fs::copy(..)? in place of let _ =.
AfterWritePropagate(res) == IF res = "failed" THEN "err" ELSE "continue"

AfterWrite(res) == "continue"

StatOf(f, p) == IF p \in DOMAIN f THEN f[p] ELSE Absent

\* The bytes a file holds before any copy: one value per path.
Bytes(p) == IF Len(p) = 1 THEN p[1] ELSE p[1] \o "/" \o p[2]

\* A filesystem the process can start in: ".." is a directory, "a" is a
\* file or missing, "d" is anything, and "d/a" exists only when "d" is a
\* directory. Modification times may lie after the clock.
CopyInit ==
    /\ now = 1
    /\ fs \in {f \in [Paths -> {Absent, Dir(0)}
                              \cup {File(m, c) : m \in 0..MaxTime,
                                                 c \in {Bytes(p) : p \in Paths}}] :
                /\ f[<<"..">>] = Dir(0)
                /\ \A p \in Paths : f[p].kind = "file" => f[p].data = Bytes(p)
                /\ f[<<"a">>].kind # "dir"
                /\ f[<<"d", "a">>].kind # "dir"
                /\ f[<<"d", "a">>].kind = "file" => f[<<"d">>].kind = "dir"}
    /\ srcs = <<>>
    /\ dest = <<"d">>
    /\ idx = 1
    /\ cpc = "idle"
    /\ events = <<>>
    /\ prev = <<>>
    /\ dirty = FALSE

\* Sequences over S of length at most n.
SeqUpTo(S, n) == UNION {[1..k -> S] : k \in 0..n}

\* copy(src, dest) is called: src.into_iter() is resolved, the loop starts.
CopyCall(s, d) ==
    /\ cpc # "loop"
    /\ srcs' = s
    /\ dest' = d
    /\ idx' = 1
    /\ cpc' = "loop"
    /\ events' = <<>>
    /\ prev' = IF cpc = "idle" THEN <<>>
               ELSE <<[srcs |-> srcs, dest |-> dest, events |-> events,
                       result |-> cpc, clean |-> ~dirty]>>
    /\ dirty' = FALSE
    /\ UNCHANGED <<fs, now>>

\* One iteration of the for loop, lines 56-70.
CopyStep ==
    /\ cpc = "loop"
    /\ idx <= Len(srcs)
    /\ LET path == srcs[idx]
           ed == EffectiveDest(fs, dest, path)
       IN IF ed.err
          THEN /\ cpc' = "err"
               /\ UNCHANGED <<fs, idx, events>>
          ELSE LET d == ed.val
               IN IF ShouldCopy(fs, path, d)
                  THEN \E o \in FsCopy(fs, path, d, now) :
                          /\ fs' = o.fs
                          /\ events' = Append(events,
                                 [src |-> path, dst |-> d,
                                  srcStat |-> StatOf(fs, path),
                                  dstStat |-> StatOf(fs, d),
                                  write |-> o.res, dstAfter |-> o.fs[d]])
                          /\ IF AfterWrite(o.res) = "continue"
                             THEN idx' = idx + 1 /\ cpc' = "loop"
                             ELSE idx' = idx /\ cpc' = "err"
                  ELSE /\ events' = Append(events,
                                 [src |-> path, dst |-> d,
                                  srcStat |-> StatOf(fs, path),
                                  dstStat |-> StatOf(fs, d),
                                  write |-> "none", dstAfter |-> fs[d]])
                       /\ idx' = idx + 1
                       /\ UNCHANGED <<fs, cpc>>
    /\ UNCHANGED <<now, srcs, dest, prev, dirty>>

\* The loop is over: Ok(()), line 71.
CopyReturn ==
    /\ cpc = "loop"
    /\ idx > Len(srcs)
    /\ cpc' = "ok"
    /\ UNCHANGED <<fs, now, srcs, dest, idx, events, prev, dirty>>

\* Environment: time passes.
Tick ==
    /\ now < MaxTime
    /\ now' = now + 1
    /\ UNCHANGED <<fs, srcs, dest, idx, cpc, events, prev, dirty>>

\* Environment: between two calls a source file is rewritten.
Touch(p) ==
    /\ cpc # "loop"
    /\ fs[p].kind = "file"
    /\ fs[p].mtime # now
    /\ fs' = [fs EXCEPT ![p] = File(now, fs[p].data)]
    /\ dirty' = TRUE
    /\ UNCHANGED <<now, srcs, dest, idx, cpc, events, prev>>

\* ------------------------------------------------------- specifications

\* The copier at rest, for the specification of the Maker.
CopyIdle ==
    /\ now = 0
    /\ fs = [p \in Paths |-> Absent]
    /\ srcs = <<>>
    /\ dest = <<"d">>
    /\ idx = 1
    /\ cpc = "idle"
    /\ events = <<>>
    /\ prev = <<>>
    /\ dirty = FALSE

\* A Maker that is never configured, for the specification of the copier.
MakerIdle ==
    /\ commands = <<>>
    /\ default = <<>>
    /\ args = <<>>
    /\ mpc = "configure"
    /\ stderr = <<>>
    /\ invoked = <<>>
    /\ registered = <<>>
    /\ defaultCalls = <<>>

Init == MakerInit /\ CopyIdle

Next ==
    \/ \E name \in ArgNames : Default(name) /\ UNCHANGED copyVars
    \/ \E name \in CmdNames : Cmd(name) /\ UNCHANGED copyVars
    \/ \E ok \in BOOLEAN : Make(ok) /\ UNCHANGED copyVars

Spec == Init /\ [][Next]_vars

InitCopy == MakerIdle /\ CopyInit

NextCopy ==
    \/ \E s \in SeqUpTo(SrcPaths, MaxSrcs), d \in DestPaths :
          CopyCall(s, d) /\ UNCHANGED makerVars
    \/ CopyStep /\ UNCHANGED makerVars
    \/ CopyReturn /\ UNCHANGED makerVars
    \/ Tick /\ UNCHANGED makerVars
    \/ \E p \in {<<"a">>} : Touch(p) /\ UNCHANGED makerVars

SpecCopy == InitCopy /\ [][NextCopy]_vars

\* ------------------------------------------------- claims: the Maker

\* The name make is asked for, read off the process arguments and the
\* Maker's default: <<>> when there is neither.
Requested == IF Len(args) >= 1 THEN <<args[1]>> ELSE default

IsRegistered(name) == \E k \in 1..Len(registered) : registered[k].name = name

\* Index in registration order of the earliest entry registered under name.
Earliest(name) ==
    CHOOSE k \in 1..Len(registered) :
        /\ registered[k].name = name
        /\ \A j \in 1..(k - 1) : registered[j].name # name

\* What an observer sees when make was run for `name`: an action registered
\* under that name ran, or (no such entry) nothing ran and the console shows
\* the help listing or the unknown-command line of that name.
DispatchedAs(name) ==
    IF IsRegistered(name)
    THEN Len(invoked) = 1 /\ registered[invoked[1]].name = name
    ELSE /\ invoked = <<>>
         /\ IF name = "help" THEN stderr[1] = "Available commands:"
            ELSE stderr = <<"Unknown command: " \o name>>

\* C1: make takes the first program argument as the requested name even when
\* a default is configured, else the configured default, and with neither
\* prints "No command was given", calls no action and returns.
C1_TargetPriority ==
    mpc = "done" =>
        /\ Len(args) >= 1 => DispatchedAs(args[1])
        /\ (Len(args) = 0 /\ default # <<>>) => DispatchedAs(default[1])
        /\ (Len(args) = 0 /\ default = <<>>) =>
              stderr = <<"No command was given">> /\ invoked = <<>>

\* C1 witness: an argument and a different, registered default are both
\* there, and the argument's action is the one that ran.
C1_Witness ==
    /\ mpc = "done"
    /\ Len(args) >= 1
    /\ default # <<>>
    /\ default[1] # args[1]
    /\ IsRegistered(default[1])
    /\ Len(invoked) = 1
    /\ registered[invoked[1]].name = args[1]

\* C2: when the requested name is registered, make removes and calls the
\* entry registered earliest under it; no other entry is called, and every
\* other entry stays in the registry in its order.
C2_FirstMatch ==
    (mpc = "done" /\ Requested # <<>> /\ IsRegistered(Requested[1])) =>
        LET k == Earliest(Requested[1])
        IN /\ invoked = <<k>>
           /\ commands = [j \in 1..(Len(registered) - 1) |->
                             IF j < k THEN registered[j] ELSE registered[j + 1]]

\* C2 witness: the requested name was registered twice, after an entry of
\* another name, and the first of the two ran.
C2_Witness ==
    /\ mpc = "done"
    /\ Len(registered) = 3
    /\ registered[1].name # registered[2].name
    /\ registered[2].name = registered[3].name
    /\ Requested = <<registered[2].name>>
    /\ invoked = <<2>>

\* C3: one call of make calls no action or exactly one, on every path.
C3_AtMostOne == Len(invoked) <= 1

\* C3 witness: the requested name is registered more than once, one action
\* ran, and it failed.
C3_Witness ==
    /\ mpc = "done"
    /\ Len(invoked) = 1
    /\ Cardinality({k \in 1..Len(registered) :
                       registered[k].name = registered[invoked[1]].name}) >= 2
    /\ stderr = <<"An error occurred:", ErrText>>

\* C4 as claimed: with no argument, every default that matches no registered
\* name is reported as "Unknown command: <default>" and no action is called.
C4_AsClaimed ==
    (mpc = "done" /\ Len(args) = 0 /\ defaultCalls # <<>>
        /\ ~IsRegistered(defaultCalls[Len(defaultCalls)])) =>
        /\ stderr = <<"Unknown command: " \o defaultCalls[Len(defaultCalls)]>>
        /\ invoked = <<>>

\* C4 amended: default() keeps only the last name, and with no argument a
\* last default other than "help" that matches no registered name is
\* reported as "Unknown command: <default>" and no action is called.
C4_UnmatchedDefault ==
    /\ defaultCalls # <<>> => default = <<defaultCalls[Len(defaultCalls)]>>
    /\ defaultCalls = <<>> => default = <<>>
    /\ (mpc = "done" /\ Len(args) = 0 /\ defaultCalls # <<>>
          /\ ~IsRegistered(defaultCalls[Len(defaultCalls)])
          /\ defaultCalls[Len(defaultCalls)] # "help") =>
          /\ stderr = <<"Unknown command: " \o defaultCalls[Len(defaultCalls)]>>
          /\ invoked = <<>>

\* C4 witness: default() was called twice with different names, the first
\* one registered, the last one not, and make reported the last one.
C4_Witness ==
    /\ mpc = "done"
    /\ Len(args) = 0
    /\ Len(defaultCalls) = 2
    /\ defaultCalls[1] # defaultCalls[2]
    /\ IsRegistered(defaultCalls[1])
    /\ ~IsRegistered(defaultCalls[2])
    /\ stderr = <<"Unknown command: " \o defaultCalls[2]>>
    /\ invoked = <<>>

\* C5 as claimed: when "help" is requested and not registered, the
\* registered names, one per line in registration order, are all that is
\* printed, and no action is called.
C5_AsClaimed ==
    (mpc = "done" /\ Requested = <<"help">> /\ ~IsRegistered("help")) =>
        /\ stderr = [k \in 1..Len(registered) |-> registered[k].name]
        /\ invoked = <<>>

\* C5 amended: when "help" is requested and not registered, make prints the
\* line "Available commands:" and then every registered name in registration
\* order, duplicates included, one per line after two spaces; that is all it
\* prints, and no action is called.
C5_HelpListing ==
    (mpc = "done" /\ Requested = <<"help">> /\ ~IsRegistered("help")) =>
        /\ Len(stderr) = Len(registered) + 1
        /\ stderr[1] = "Available commands:"
        /\ \A k \in 1..Len(registered) :
              stderr[k + 1] = "  " \o registered[k].name
        /\ invoked = <<>>

\* C5 witness: the help listing of a registry that holds a name twice and
\* another name after it.
C5_Witness ==
    /\ mpc = "done"
    /\ Requested = <<"help">>
    /\ Len(registered) = 3
    /\ registered[1].name = registered[2].name
    /\ registered[3].name # registered[1].name
    /\ stderr = <<"Available commands:", "  " \o registered[1].name,
                  "  " \o registered[2].name, "  " \o registered[3].name>>

\* C6: an argument that is neither registered nor "help" makes make print
\* exactly "Unknown command: <name>", call no action and return, whether or
\* not a default is configured.
C6_UnknownCommand ==
    (mpc = "done" /\ Len(args) >= 1 /\ ~IsRegistered(args[1])
        /\ args[1] # "help") =>
        /\ stderr = <<"Unknown command: " \o args[1]>>
        /\ invoked = <<>>
        /\ commands = registered

\* C6 witness: the unknown argument met a default that is registered, and
\* the default's action did not run.
C6_Witness ==
    /\ mpc = "done"
    /\ Len(args) >= 1
    /\ ~IsRegistered(args[1])
    /\ default # <<>>
    /\ IsRegistered(default[1])
    /\ stderr = <<"Unknown command: " \o args[1]>>
    /\ invoked = <<>>

\* ------------------------------------------------ claims: the copier

\* A path without a filename component.
NoFilename(p) == p = <<>> \/ p[Len(p)] = ".."

\* The write was attempted for the source of event e exactly when one of the
\* two paths could not be read or the source was strictly newer.
DecisionRight(e) ==
    (e.write # "none") <=>
        \/ e.srcStat.kind = "absent"
        \/ e.dstStat.kind = "absent"
        \/ e.srcStat.mtime > e.dstStat.mtime

\* The call that has just returned repeats the call before it: same sources,
\* same destination, no source modified in between.
CalledAgain ==
    /\ cpc \in {"ok", "err"}
    /\ prev # <<>>
    /\ prev[1].srcs = srcs
    /\ prev[1].dest = dest
    /\ prev[1].clean

Both == IF prev = <<>> THEN {} ELSE DOMAIN events \cap DOMAIN prev[1].events

\* C7 as claimed: when copy is called twice in a row for an unchanged source
\* and the same destination, a source the first call wrote is not written by
\* the second call.
C7_AsClaimed ==
    CalledAgain =>
        \A i \in Both :
            prev[1].events[i].write = "ok" => events[i].write = "none"

\* C7 amended: when copy is called twice in a row for an unchanged source
\* and the same destination, a source the first call wrote is not written by
\* the second call, provided the source's modification time is not later
\* than the one the write gave the destination.
C7_Idempotent ==
    CalledAgain =>
        \A i \in Both :
            (/\ prev[1].events[i].write = "ok"
             /\ prev[1].events[i].srcStat.mtime
                    <= prev[1].events[i].dstAfter.mtime)
                => events[i].write = "none"

\* C7 witness: the first call created the destination from the source, the
\* second call compared the two and wrote nothing.
C7_Witness ==
    /\ CalledAgain
    /\ cpc = "ok"
    /\ Len(events) >= 1
    /\ prev[1].events[1].dstStat.kind = "absent"
    /\ prev[1].events[1].write = "ok"
    /\ events[1].write = "none"

\* C8: for each source the loop reaches, the write is attempted exactly when
\* the comparison fails (source or effective destination unreadable) or the
\* source is strictly newer than the effective destination; a source that is
\* skipped leaves the filesystem as it was.
C8_Decision ==
    /\ [](\A i \in 1..Len(events) : DecisionRight(events[i]))
    /\ [][(/\ cpc = "loop"
           /\ Len(events') = Len(events) + 1
           /\ events'[Len(events')].write = "none") => fs' = fs]_vars

\* C8 witness: in one call a source was written because its destination did
\* not exist, and then skipped because the two modification times were equal.
C8_Witness ==
    /\ Len(events) = 2
    /\ events[1].dstStat.kind = "absent"
    /\ events[1].write = "ok"
    /\ events[2].srcStat.kind = "file"
    /\ events[2].dstStat.kind = "file"
    /\ events[2].srcStat.mtime = events[2].dstStat.mtime
    /\ events[2].write = "none"

\* C9: copy returns an error exactly at the first source without a filename
\* when the destination is a directory: nothing after that source is
\* compared or copied and the call does not return success. When the
\* destination is not a directory there is no such error and every source,
\* with or without a filename, is compared with the destination path itself.
C9_MissingFilename ==
    /\ cpc = "err" =>
          /\ fs[dest].kind = "dir"
          /\ idx \in 1..Len(srcs)
          /\ NoFilename(srcs[idx])
          /\ \A j \in 1..(idx - 1) : ~NoFilename(srcs[j])
          /\ Len(events) = idx - 1
    /\ (cpc = "ok" /\ fs[dest].kind = "dir") =>
          \A i \in 1..Len(srcs) : ~NoFilename(srcs[i])
    /\ (cpc \in {"loop", "ok", "err"} /\ fs[dest].kind # "dir") =>
          /\ cpc # "err"
          /\ \A i \in 1..Len(events) : events[i].dst = dest
          /\ cpc = "ok" => Len(events) = Len(srcs)

\* C9 witness: the call failed at a source without a filename that had a
\* source after it.
C9_Witness ==
    /\ cpc = "err"
    /\ fs[dest].kind = "dir"
    /\ idx < Len(srcs)
    /\ NoFilename(srcs[idx])
    /\ ~NoFilename(srcs[idx + 1])

\* C10 as claimed: when a write fails, every source is still compared and
\* the call returns success.
C10_AsClaimed ==
    (/\ cpc \in {"ok", "err"}
     /\ \E i \in 1..Len(events) : events[i].write = "failed") =>
        /\ cpc = "ok"
        /\ Len(events) = Len(srcs)

\* C10 amended: a failed write never ends the call. The loop goes on with
\* the next source in resolution order, every later source is compared and
\* written if stale, and the call returns success, unless a later source
\* without a filename meets a directory destination, which ends the call
\* with an error at that source.
C10_BestEffort ==
    \A i \in 1..Len(events) :
        events[i].write = "failed" =>
            /\ \A j \in 1..Len(events) :
                  events[j].src = srcs[j] /\ DecisionRight(events[j])
            /\ cpc = "loop" => idx = Len(events) + 1
            /\ cpc = "ok" => Len(events) = Len(srcs)
            /\ cpc = "err" =>
                  /\ idx > i
                  /\ idx <= Len(srcs)
                  /\ Len(events) = idx - 1
                  /\ NoFilename(srcs[idx])
                  /\ fs[dest].kind = "dir"

\* C10 witness: the write of the first source failed, the second source was
\* then compared and written, and the call returned success.
C10_Witness ==
    /\ cpc = "ok"
    /\ Len(events) = 2
    /\ events[1].write = "failed"
    /\ events[2].write = "ok"

====
